---- MODULE Spec2Model ----
(***************************************************************************)
(* Model of AuthorizationHandler.handle (mcp/server/auth/handlers/         *)
(* authorize.py): the OAuth 2.0 authorization-code endpoint.  One request  *)
(* is processed per behaviour.  The handler's local variables (params,     *)
(* state, redirect_uri, client) are the state; the program counter pc      *)
(* moves through the primary pipeline and through the nested               *)
(* error_response coroutine; each call into the provider is one step whose *)
(* outcome (value, domain error, unexpected exception) is chosen here.     *)
(***************************************************************************)
EXTENDS Integers, Sequences, FiniteSets, TLC

\* ------------------------------------------------------------------------
\* Values
\* ------------------------------------------------------------------------

\* Python's None.
None == "<None>"

\* A form value that is not a str (starlette's UploadFile in a POST body).
UploadFile == "<UploadFile>"

\* The value of params before the request is read (None in the code): a bag
\* that is no request's bag.
NoParams == [k \in {None} |-> None]

\* Marker used only while enumerating requests: the key is not sent.
Missing == "<missing>"

\* Outcomes of a call that does not return a value.
Exception == "<Exception>"
ValidationError == "<ValidationError>"
InvalidRedirectUriError == "<InvalidRedirectUriError>"
InvalidScopeError == "<InvalidScopeError>"
AuthorizeError == "<AuthorizeError>"

\* How many unexpected exceptions the collaborators may raise in one request.
MaxFaults == 2

Keys ==
  {"client_id", "redirect_uri", "response_type", "code_challenge",
   "code_challenge_method", "state", "scope", "resource"}

\* Values a request may send for each key.
SentValues(k) ==
  CASE k = "client_id" -> {"c1", "c2", "nobody", ""}
    [] k = "redirect_uri" ->
         {"https://app/cb", "HTTPS://APP/cb", "https://app/cb2",
          "https://evil/x", "not a url", UploadFile}
    [] k = "response_type" -> {"code", "token"}
    [] k = "code_challenge" -> {"abc"}
    [] k = "code_challenge_method" -> {"S256", "plain"}
    [] k = "state" -> {"xyz", "", UploadFile}
    [] k = "scope" -> {"read", "admin"}
    [] k = "resource" -> {"https://rs"}

\* The key/value bag of a request: a function whose domain is the keys sent.
Bag(f) == [k \in {x \in Keys : f[x] # Missing} |-> f[k]]

HasUpload(p) == \E k \in DOMAIN p : p[k] = UploadFile

\* ------------------------------------------------------------------------
\* Collaborators outside the handler
\* ------------------------------------------------------------------------

\* pydantic's AnyUrl parsing: lower-cases scheme and host, rejects what is
\* not an absolute URL (None and the empty string included).
AnyUrlModel_model_validate(s) ==
  CASE s = "https://app/cb" -> "https://app/cb"
    [] s = "HTTPS://APP/cb" -> "https://app/cb"
    [] s = "https://app/cb2" -> "https://app/cb2"
    [] s = "https://evil/x" -> "https://evil/x"
    [] OTHER -> ValidationError

\* The provider's client registry: client id -> registered redirect URIs.
RegisteredClients == {"c1", "c2"}

redirect_uris(c) ==
  CASE c = "c1" -> <<"https://app/cb">>
    [] c = "c2" -> <<"https://app/cb", "https://app/cb2">>

Range(s) == {s[i] : i \in DOMAIN s}

\* provider.get_client when it returns: the client or None.
get_client(client_id) ==
  IF client_id \in RegisteredClients THEN client_id ELSE None

\* client.validate_redirect_uri when it does not fail unexpectedly.
validate_redirect_uri(c, candidate) ==
  IF candidate # None
  THEN IF candidate \in Range(redirect_uris(c))
       THEN candidate
       ELSE InvalidRedirectUriError
  ELSE IF Len(redirect_uris(c)) = 1
       THEN redirect_uris(c)[1]
       ELSE InvalidRedirectUriError

\* Scope strings split on whitespace.
SplitScope(s) ==
  CASE s = "read" -> <<"read">>
    [] s = "admin" -> <<"admin">>
    [] OTHER -> <<>>

AllowedScopes(c) == {"read"}

DefaultScopes(c) == <<"read">>

\* client.validate_scope when it does not fail unexpectedly.
validate_scope(c, scope) ==
  IF scope = None
  THEN DefaultScopes(c)
  ELSE IF Range(SplitScope(scope)) \subseteq AllowedScopes(c)
       THEN SplitScope(scope)
       ELSE <<InvalidScopeError>>

\* What provider.authorize may do: return a target URI or raise
\* AuthorizeError(error, error_description).
AuthorizeTarget == "https://as/consent?req=1"

AuthorizeErrors ==
  { [error |-> "access_denied", error_description |-> "denied"],
    [error |-> "temporarily_unavailable", error_description |-> None] }

\* ------------------------------------------------------------------------
\* Pure parts of the handler
\* ------------------------------------------------------------------------

\* Variant: a truthiness test instead of isinstance(value, str), so that an
\* empty string is dropped.
best_effort_extract_string_truthy(key, p) ==
  IF p = NoParams THEN None
  ELSE IF key \notin DOMAIN p THEN None
  ELSE IF p[key] \notin {UploadFile, ""} THEN p[key]
  ELSE None

\* best_effort_extract_string (lines 52-58).
best_effort_extract_string(key, p) ==
  IF p = NoParams THEN None
  ELSE IF key \notin DOMAIN p THEN None
  ELSE IF p[key] # UploadFile THEN p[key]
  ELSE None

\* Python truthiness of the values client and redirect_uri take.
Truthy(v) == v \notin {None, ""}

\* AuthorizationRequest.model_validate (lines 24-41): the field errors, in
\* field order, each a <<loc, type>> pair.
StrRequired(p, k) ==
  IF k \notin DOMAIN p THEN << <<k, "missing">> >>
  ELSE IF p[k] = UploadFile THEN << <<k, "string_type">> >>
  ELSE <<>>

StrOptional(p, k) ==
  IF k \in DOMAIN p /\ p[k] = UploadFile
  THEN << <<k, "string_type">> >>
  ELSE <<>>

UrlOptional(p, k) ==
  IF k \notin DOMAIN p THEN <<>>
  ELSE IF p[k] = UploadFile THEN << <<k, "url_type">> >>
  ELSE IF AnyUrlModel_model_validate(p[k]) = ValidationError
       THEN << <<k, "url_parsing">> >>
  ELSE <<>>

LiteralRequired(p, k, lit) ==
  IF k \notin DOMAIN p THEN << <<k, "missing">> >>
  ELSE IF p[k] # lit THEN << <<k, "literal_error">> >>
  ELSE <<>>

LiteralOptional(p, k, lit) ==
  IF k \in DOMAIN p /\ p[k] # lit
  THEN << <<k, "literal_error">> >>
  ELSE <<>>

validation_errors(p) ==
  StrRequired(p, "client_id")
    \o UrlOptional(p, "redirect_uri")
    \o LiteralRequired(p, "response_type", "code")
    \o StrRequired(p, "code_challenge")
    \o LiteralOptional(p, "code_challenge_method", "S256")
    \o StrOptional(p, "state")
    \o StrOptional(p, "scope")
    \o StrOptional(p, "resource")

Field(p, k) == IF k \in DOMAIN p THEN p[k] ELSE None

\* The validated AuthorizationRequest (only built when there are no errors).
AuthorizationRequest(p) ==
  [client_id |-> p["client_id"],
   redirect_uri |->
     IF "redirect_uri" \in DOMAIN p
     THEN AnyUrlModel_model_validate(p["redirect_uri"])
     ELSE None,
   response_type |-> p["response_type"],
   code_challenge |-> p["code_challenge"],
   code_challenge_method |->
     IF "code_challenge_method" \in DOMAIN p
     THEN p["code_challenge_method"] ELSE "S256",
   state |-> Field(p, "state"),
   scope |-> Field(p, "scope"),
   resource |-> Field(p, "resource")]

NoRequest ==
  [client_id |-> None, redirect_uri |-> None, response_type |-> None,
   code_challenge |-> None, code_challenge_method |-> None,
   state |-> None, scope |-> None, resource |-> None]

\* Variant: the loop tests only the error's location, not its type.
validation_error_code_any_type(errors) ==
  IF \E i \in DOMAIN errors : errors[i][1] = "response_type"
  THEN "unsupported_response_type"
  ELSE "invalid_request"

\* Variant: only the first error is looked at.
validation_error_code_first_only(errors) ==
  IF errors # <<>> /\ errors[1] = <<"response_type", "literal_error">>
  THEN "unsupported_response_type"
  ELSE "invalid_request"

\* Lines 158-162: the error code of a structural failure.
validation_error_code(errors) ==
  IF \E i \in DOMAIN errors : errors[i] = <<"response_type", "literal_error">>
  THEN "unsupported_response_type"
  ELSE "invalid_request"

\* Error descriptions (their wording is not modelled).
ValidationText == "stringify_pydantic_error(validation_error)"
ClientNotFoundText == "Client ID not found"
RedirectText == "InvalidRedirectUriError.message"
ScopeText == "InvalidScopeError.message"
UnexpectedText == "An unexpected error occurred"

\* Variant: the `client is None` test is missing.
attempt_client_always(c, attempt_load_client) == attempt_load_client

\* Variant: the attempt_load_client flag is not consulted.
attempt_client_ignoring_flag(c, attempt_load_client) == c = None

\* Line 99: does error_response try to load the client?
attempt_client(c, attempt_load_client) == c = None /\ attempt_load_client

\* Line 103: does error_response try to load the redirect URI?
attempt_redirect(uri, c) == uri = None /\ Truthy(c)

\* Variant: an absent redirect_uri key is parsed like a present one.
raw_redirect_uri_always_parsed(p) ==
  AnyUrlModel_model_validate(best_effort_extract_string("redirect_uri", p))

\* Variant: a raw value that does not parse is treated like an absent key.
raw_redirect_uri_default_on_invalid(p) ==
  IF p # NoParams /\ "redirect_uri" \notin DOMAIN p
  THEN None
  ELSE IF AnyUrlModel_model_validate(
            best_effort_extract_string("redirect_uri", p)) = ValidationError
  THEN None
  ELSE AnyUrlModel_model_validate(best_effort_extract_string("redirect_uri", p))

\* Lines 106-111: the candidate handed to client.validate_redirect_uri in
\* recovery; ValidationError when parsing the raw value fails.
raw_redirect_uri(p) ==
  IF p # NoParams /\ "redirect_uri" \notin DOMAIN p
  THEN None
  ELSE AnyUrlModel_model_validate(best_effort_extract_string("redirect_uri", p))

\* Lines 119-121.
recover_state(st, p) ==
  IF st = None THEN best_effort_extract_string("state", p) ELSE st

\* Lines 123-127 (error_uri is never set).
AuthorizationErrorResponse(error, error_description, st) ==
  [error |-> error, error_description |-> error_description,
   error_uri |-> None, state |-> st]

\* Variant: empty values are dropped along with None.
model_dump_exclude_empty(error_resp) ==
  {k \in DOMAIN error_resp : error_resp[k] \notin {None, ""}}

\* model_dump(exclude_none=True): the names of the fields that are not None.
model_dump_exclude_none(error_resp) ==
  {k \in DOMAIN error_resp : error_resp[k] # None}

NoResponse ==
  [kind |-> None, status_code |-> 0, location |-> None, query |-> {},
   error |-> None, error_description |-> None, state |-> None,
   cache_control |-> None]

\* Variant: `or` in place of `and` in the delivery test.
deliver_either(error_resp, uri, c) ==
  IF Truthy(uri) \/ Truthy(c)
  THEN [kind |-> "error_redirect", status_code |-> 302, location |-> uri,
        query |-> model_dump_exclude_none(error_resp),
        error |-> error_resp.error,
        error_description |-> error_resp.error_description,
        state |-> error_resp.state, cache_control |-> "no-store"]
  ELSE [kind |-> "error_direct", status_code |-> 400, location |-> None,
        query |-> {},
        error |-> error_resp.error,
        error_description |-> error_resp.error_description,
        state |-> error_resp.state, cache_control |-> "no-store"]

\* Variant: the delivery test looks at the client only.
deliver_client_only(error_resp, uri, c) ==
  IF Truthy(c)
  THEN [kind |-> "error_redirect", status_code |-> 302, location |-> uri,
        query |-> model_dump_exclude_none(error_resp),
        error |-> error_resp.error,
        error_description |-> error_resp.error_description,
        state |-> error_resp.state, cache_control |-> "no-store"]
  ELSE [kind |-> "error_direct", status_code |-> 400, location |-> None,
        query |-> {},
        error |-> error_resp.error,
        error_description |-> error_resp.error_description,
        state |-> error_resp.state, cache_control |-> "no-store"]

\* Lines 129-140: redirect when both are known, direct JSON otherwise.
deliver(error_resp, uri, c) ==
  IF Truthy(uri) /\ Truthy(c)
  THEN [kind |-> "error_redirect", status_code |-> 302, location |-> uri,
        query |-> model_dump_exclude_none(error_resp),
        error |-> error_resp.error,
        error_description |-> error_resp.error_description,
        state |-> error_resp.state, cache_control |-> "no-store"]
  ELSE [kind |-> "error_direct", status_code |-> 400, location |-> None,
        query |-> {},
        error |-> error_resp.error,
        error_description |-> error_resp.error_description,
        state |-> error_resp.state, cache_control |-> "no-store"]

\* Lines 209-216: the success redirect.
success_response(target) ==
  [kind |-> "success", status_code |-> 302, location |-> target,
   query |-> {}, error |-> None, error_description |-> None,
   state |-> None, cache_control |-> "no-store"]

\* ------------------------------------------------------------------------
\* State
\* ------------------------------------------------------------------------
VARIABLES
  request,       \* the incoming request: method and the key/value bag sent
  params,        \* handle's params
  state,         \* handle's state
  redirect_uri,  \* handle's redirect_uri
  client,        \* handle's client
  auth_request,  \* the validated AuthorizationRequest
  scopes,        \* result of client.validate_scope
  pc,            \* position in handle / error_response
  er,            \* arguments of the running error_response call
  in_except,     \* inside the except block of lines 221-224
  response,      \* the Response handle returned
  calls,         \* history: calls made to the provider and the client
  authorized,    \* history: AuthorizationParams passed to provider.authorize
  er_calls,      \* history: invocations of error_response
  faults         \* number of unexpected exceptions raised so far

vars ==
  <<request, params, state, redirect_uri, client, auth_request, scopes, pc,
    er, in_except, response, calls, authorized, er_calls, faults>>

\* Variant: the flag is computed from the resolved redirect_uri, which is
\* set also when the client's default was used.
redirect_uri_provided_explicitly_resolved(req) == redirect_uri # None

\* Line 203.
redirect_uri_provided_explicitly(req) == req.redirect_uri # None

\* Lines 198-205.
AuthorizationParams(st, sc, req, uri) ==
  [state |-> st, scopes |-> sc, code_challenge |-> req.code_challenge,
   redirect_uri |-> uri,
   redirect_uri_provided_explicitly |-> redirect_uri_provided_explicitly(req),
   resource |-> req.resource]

NoError ==
  [error |-> None, error_description |-> None, attempt_load_client |-> TRUE]

Sent ==
  [client_id : SentValues("client_id") \cup {Missing},
   redirect_uri : SentValues("redirect_uri") \cup {Missing},
   response_type : SentValues("response_type") \cup {Missing},
   code_challenge : SentValues("code_challenge") \cup {Missing},
   code_challenge_method : SentValues("code_challenge_method") \cup {Missing},
   state : SentValues("state") \cup {Missing},
   scope : SentValues("scope") \cup {Missing},
   resource : SentValues("resource") \cup {Missing}]

\* Query strings hold only text; a form body may also hold uploads.
Requests ==
  {r \in {[method |-> m, bag |-> Bag(f)] : m \in {"GET", "POST"}, f \in Sent} :
     r.method = "GET" => ~HasUpload(r.bag)}

Init ==
  /\ request \in Requests
  /\ params = NoParams
  /\ state = None
  /\ redirect_uri = None
  /\ client = None
  /\ auth_request = NoRequest
  /\ scopes = <<>>
  /\ pc = "parse"
  /\ er = NoError
  /\ in_except = FALSE
  /\ response = NoResponse
  /\ calls = <<>>
  /\ authorized = <<>>
  /\ er_calls = <<>>
  /\ faults = 0

\* ------------------------------------------------------------------------
\* Steps
\* ------------------------------------------------------------------------

Call(op, c, arg, res) == [op |-> op, client |-> c, arg |-> arg, res |-> res]

\* `return await error_response(error, error_description, attempt_load_client)`
\* (lines 78-82): bind the arguments and enter the coroutine; handler tells
\* whether the call is the one of the except block.
EnterErrorResponseFrom(error, error_description, attempt_load_client, handler) ==
  /\ er' = [error |-> error, error_description |-> error_description,
            attempt_load_client |-> attempt_load_client]
  /\ er_calls' = Append(er_calls,
                        [error |-> error,
                         error_description |-> error_description,
                         attempt_load_client |-> attempt_load_client,
                         in_except |-> handler])
  /\ pc' = "er_client"

EnterErrorResponse(error, error_description, attempt_load_client) ==
  EnterErrorResponseFrom(error, error_description, attempt_load_client, FALSE)

\* An unexpected exception leaves the current step: inside the try block it
\* is caught at line 221, inside the except block it leaves handle.
Raise ==
  /\ faults' = faults + 1
  /\ pc' = IF in_except THEN "raised" ELSE "except"

\* Lines 144-152 when the parameters can be read.
ParseParams ==
  /\ pc = "parse"
  /\ params' = request.bag
  /\ state' = best_effort_extract_string("state", params')
  /\ pc' = "validate"
  /\ UNCHANGED <<request, redirect_uri, client, auth_request, scopes, er,
                 in_except, response, calls, authorized, er_calls, faults>>

\* Line 149 when `await request.form()` raises.
FormRaises ==
  /\ pc = "parse"
  /\ request.method = "POST"
  /\ faults < MaxFaults
  /\ Raise
  /\ UNCHANGED <<request, params, state, redirect_uri, client, auth_request,
                 scopes, er, in_except, response, calls, authorized,
                 er_calls>>

\* Lines 154-163.
Validate ==
  /\ pc = "validate"
  /\ LET errors == validation_errors(params) IN
       IF errors = <<>>
       THEN /\ auth_request' = AuthorizationRequest(params)
            /\ state' = auth_request'.state
            /\ pc' = "get_client"
            /\ UNCHANGED <<er, er_calls>>
       ELSE /\ EnterErrorResponse(validation_error_code(errors),
                                  ValidationText, TRUE)
            /\ UNCHANGED <<auth_request, state>>
  /\ UNCHANGED <<request, params, redirect_uri, client, scopes, in_except,
                 response, calls, authorized, faults>>

\* Variant: the not-found error is raised with the default
\* attempt_load_client=True.
GetClient_retrying ==
  /\ pc = "get_client"
  /\ client' = get_client(auth_request.client_id)
  /\ calls' = Append(calls, Call("get_client", None, auth_request.client_id,
                                 client'))
  /\ IF ~Truthy(client')
     THEN EnterErrorResponse("invalid_request", ClientNotFoundText, TRUE)
     ELSE /\ pc' = "validate_redirect_uri"
          /\ UNCHANGED <<er, er_calls>>
  /\ UNCHANGED <<request, params, state, redirect_uri, auth_request, scopes,
                 in_except, response, authorized, faults>>

\* Lines 166-175 when provider.get_client returns.
GetClient ==
  /\ pc = "get_client"
  /\ client' = get_client(auth_request.client_id)
  /\ calls' = Append(calls, Call("get_client", None, auth_request.client_id,
                                 client'))
  /\ IF ~Truthy(client')
     THEN EnterErrorResponse("invalid_request", ClientNotFoundText, FALSE)
     ELSE /\ pc' = "validate_redirect_uri"
          /\ UNCHANGED <<er, er_calls>>
  /\ UNCHANGED <<request, params, state, redirect_uri, auth_request, scopes,
                 in_except, response, authorized, faults>>

\* Lines 178-185 when client.validate_redirect_uri returns or raises
\* InvalidRedirectUriError.
ValidateRedirectUri ==
  /\ pc = "validate_redirect_uri"
  /\ LET r == validate_redirect_uri(client, auth_request.redirect_uri) IN
       /\ calls' = Append(calls, Call("validate_redirect_uri", client,
                                      auth_request.redirect_uri, r))
       /\ IF r = InvalidRedirectUriError
          THEN /\ EnterErrorResponse("invalid_request", RedirectText, TRUE)
               /\ UNCHANGED redirect_uri
          ELSE /\ redirect_uri' = r
               /\ pc' = "validate_scope"
               /\ UNCHANGED <<er, er_calls>>
  /\ UNCHANGED <<request, params, state, client, auth_request, scopes,
                 in_except, response, authorized, faults>>

\* Variant: the `return` of line 192 is missing, so an invalid scope goes on
\* to provider.authorize.
ValidateScope_continuing ==
  /\ pc = "validate_scope"
  /\ LET r == validate_scope(client, auth_request.scope) IN
       IF r = <<InvalidScopeError>>
       THEN /\ calls' = Append(calls, Call("validate_scope", client,
                                           auth_request.scope,
                                           InvalidScopeError))
            /\ pc' = "authorize"
            /\ UNCHANGED <<scopes, er, er_calls>>
       ELSE /\ calls' = Append(calls, Call("validate_scope", client,
                                           auth_request.scope, "scopes"))
            /\ scopes' = r
            /\ pc' = "authorize"
            /\ UNCHANGED <<er, er_calls>>
  /\ UNCHANGED <<request, params, state, redirect_uri, client, auth_request,
                 in_except, response, authorized, faults>>

\* Lines 188-195 when client.validate_scope returns or raises
\* InvalidScopeError.
ValidateScope ==
  /\ pc = "validate_scope"
  /\ LET r == validate_scope(client, auth_request.scope) IN
       IF r = <<InvalidScopeError>>
       THEN /\ calls' = Append(calls, Call("validate_scope", client,
                                           auth_request.scope,
                                           InvalidScopeError))
            /\ EnterErrorResponse("invalid_scope", ScopeText, TRUE)
            /\ UNCHANGED scopes
       ELSE /\ calls' = Append(calls, Call("validate_scope", client,
                                           auth_request.scope, "scopes"))
            /\ scopes' = r
            /\ pc' = "authorize"
            /\ UNCHANGED <<er, er_calls>>
  /\ UNCHANGED <<request, params, state, redirect_uri, client, auth_request,
                 in_except, response, authorized, faults>>

\* Lines 198-216 when provider.authorize returns the target URI.
Authorize ==
  /\ pc = "authorize"
  /\ authorized' = Append(authorized,
                          AuthorizationParams(state, scopes, auth_request,
                                              redirect_uri))
  /\ calls' = Append(calls, Call("authorize", client, None, AuthorizeTarget))
  /\ response' = success_response(AuthorizeTarget)
  /\ pc' = "done"
  /\ UNCHANGED <<request, params, state, redirect_uri, client, auth_request,
                 scopes, er, in_except, er_calls, faults>>

\* Variant: the AuthorizeError is reported with a fixed code and text.
AuthorizeFails_generic ==
  /\ pc = "authorize"
  /\ EnterErrorResponse("server_error", UnexpectedText, TRUE)
  /\ authorized' = Append(authorized,
                          AuthorizationParams(state, scopes, auth_request,
                                              redirect_uri))
  /\ calls' = Append(calls, Call("authorize", client, None, AuthorizeError))
  /\ UNCHANGED <<request, params, state, redirect_uri, client, auth_request,
                 scopes, in_except, response, faults>>

\* Lines 198-219 when provider.authorize raises AuthorizeError.
AuthorizeFails ==
  /\ pc = "authorize"
  /\ \E e \in AuthorizeErrors :
       EnterErrorResponse(e.error, e.error_description, TRUE)
  /\ authorized' = Append(authorized,
                          AuthorizationParams(state, scopes, auth_request,
                                              redirect_uri))
  /\ calls' = Append(calls, Call("authorize", client, None, AuthorizeError))
  /\ UNCHANGED <<request, params, state, redirect_uri, client, auth_request,
                 scopes, in_except, response, faults>>

\* The provider or client call of a primary-pipeline step raises something
\* that is not the step's domain error.
PrimaryCallRaises ==
  /\ pc \in {"get_client", "validate_redirect_uri", "validate_scope",
             "authorize"}
  /\ faults < MaxFaults
  /\ calls' = Append(calls,
       CASE pc = "get_client" ->
              Call("get_client", None, auth_request.client_id, Exception)
         [] pc = "validate_redirect_uri" ->
              Call("validate_redirect_uri", client,
                   auth_request.redirect_uri, Exception)
         [] pc = "validate_scope" ->
              Call("validate_scope", client, auth_request.scope, Exception)
         [] pc = "authorize" ->
              Call("authorize", client, None, Exception))
  /\ authorized' =
       IF pc = "authorize"
       THEN Append(authorized,
                   AuthorizationParams(state, scopes, auth_request,
                                       redirect_uri))
       ELSE authorized
  /\ Raise
  /\ UNCHANGED <<request, params, state, redirect_uri, client, auth_request,
                 scopes, er, in_except, response, er_calls>>

\* Lines 221-224: the catch-all.
Except ==
  /\ pc = "except"
  /\ in_except' = TRUE
  /\ EnterErrorResponseFrom("server_error", UnexpectedText, TRUE, TRUE)
  /\ UNCHANGED <<request, params, state, redirect_uri, client, auth_request,
                 scopes, response, calls, authorized, faults>>

\* Lines 99-102 when no exception is raised.
ErLoadClient ==
  /\ pc = "er_client"
  /\ IF attempt_client(client, er.attempt_load_client)
     THEN LET client_id == best_effort_extract_string("client_id", params) IN
            IF Truthy(client_id)
            THEN /\ client' = get_client(client_id)
                 /\ calls' = Append(calls, Call("get_client", None, client_id,
                                                client'))
            ELSE /\ client' = client_id
                 /\ UNCHANGED calls
     ELSE UNCHANGED <<client, calls>>
  /\ pc' = "er_redirect"
  /\ UNCHANGED <<request, params, state, redirect_uri, auth_request, scopes,
                 er, in_except, response, authorized, er_calls, faults>>

\* Line 102 when provider.get_client raises.
ErLoadClientRaises ==
  /\ pc = "er_client"
  /\ attempt_client(client, er.attempt_load_client)
  /\ Truthy(best_effort_extract_string("client_id", params))
  /\ faults < MaxFaults
  /\ calls' = Append(calls,
                     Call("get_client", None,
                          best_effort_extract_string("client_id", params),
                          Exception))
  /\ Raise
  /\ UNCHANGED <<request, params, state, redirect_uri, client, auth_request,
                 scopes, er, in_except, response, authorized, er_calls>>

\* Variant: the parsed raw value is used without asking the client.
ErLoadRedirectUri_unvalidated ==
  /\ pc = "er_redirect"
  /\ IF attempt_redirect(redirect_uri, client)
     THEN LET raw == raw_redirect_uri(params) IN
            IF raw = ValidationError
            THEN UNCHANGED <<redirect_uri, calls>>
            ELSE IF raw # None
            THEN /\ redirect_uri' = raw
                 /\ UNCHANGED calls
            ELSE LET r == validate_redirect_uri(client, raw) IN
                   /\ calls' = Append(calls, Call("validate_redirect_uri",
                                                  client, raw, r))
                   /\ redirect_uri' =
                        IF r = InvalidRedirectUriError
                        THEN redirect_uri ELSE r
     ELSE UNCHANGED <<redirect_uri, calls>>
  /\ pc' = "er_deliver"
  /\ UNCHANGED <<request, params, state, client, auth_request, scopes, er,
                 in_except, response, authorized, er_calls, faults>>

\* Variant: InvalidRedirectUriError is missing from the except clause of
\* line 113, so a rejected URI propagates out of error_response.
ErLoadRedirectUri_uncaught ==
  /\ pc = "er_redirect"
  /\ IF attempt_redirect(redirect_uri, client)
     THEN LET raw == raw_redirect_uri(params) IN
            IF raw = ValidationError
            THEN /\ pc' = "er_deliver"
                 /\ UNCHANGED <<redirect_uri, calls>>
            ELSE LET r == validate_redirect_uri(client, raw) IN
                   /\ calls' = Append(calls, Call("validate_redirect_uri",
                                                  client, raw, r))
                   /\ IF r = InvalidRedirectUriError
                      THEN /\ pc' = IF in_except THEN "raised" ELSE "except"
                           /\ UNCHANGED redirect_uri
                      ELSE /\ pc' = "er_deliver"
                           /\ redirect_uri' = r
     ELSE /\ pc' = "er_deliver"
          /\ UNCHANGED <<redirect_uri, calls>>
  /\ UNCHANGED <<request, params, state, client, auth_request, scopes, er,
                 in_except, response, authorized, er_calls, faults>>

\* Lines 103-116 when nothing but ValidationError or
\* InvalidRedirectUriError is raised.
ErLoadRedirectUri ==
  /\ pc = "er_redirect"
  /\ IF attempt_redirect(redirect_uri, client)
     THEN LET raw == raw_redirect_uri(params) IN
            IF raw = ValidationError
            THEN UNCHANGED <<redirect_uri, calls>>
            ELSE LET r == validate_redirect_uri(client, raw) IN
                   /\ calls' = Append(calls, Call("validate_redirect_uri",
                                                  client, raw, r))
                   /\ redirect_uri' =
                        IF r = InvalidRedirectUriError
                        THEN redirect_uri ELSE r
     ELSE UNCHANGED <<redirect_uri, calls>>
  /\ pc' = "er_deliver"
  /\ UNCHANGED <<request, params, state, client, auth_request, scopes, er,
                 in_except, response, authorized, er_calls, faults>>

\* Line 112 when client.validate_redirect_uri raises something else.
ErLoadRedirectUriRaises ==
  /\ pc = "er_redirect"
  /\ attempt_redirect(redirect_uri, client)
  /\ raw_redirect_uri(params) # ValidationError
  /\ faults < MaxFaults
  /\ calls' = Append(calls, Call("validate_redirect_uri", client,
                                 raw_redirect_uri(params), Exception))
  /\ Raise
  /\ UNCHANGED <<request, params, state, redirect_uri, client, auth_request,
                 scopes, er, in_except, response, authorized, er_calls>>

\* Lines 118-140.
ErDeliver ==
  /\ pc = "er_deliver"
  /\ state' = recover_state(state, params)
  /\ response' = deliver(AuthorizationErrorResponse(er.error,
                                                    er.error_description,
                                                    state'),
                         redirect_uri, client)
  /\ pc' = "done"
  /\ UNCHANGED <<request, params, redirect_uri, client, auth_request, scopes,
                 er, in_except, calls, authorized, er_calls, faults>>

Next ==
  \/ ParseParams
  \/ FormRaises
  \/ Validate
  \/ GetClient
  \/ ValidateRedirectUri
  \/ ValidateScope
  \/ Authorize
  \/ AuthorizeFails
  \/ PrimaryCallRaises
  \/ Except
  \/ ErLoadClient
  \/ ErLoadClientRaises
  \/ ErLoadRedirectUri
  \/ ErLoadRedirectUriRaises
  \/ ErDeliver

Spec == Init /\ [][Next]_vars

\* ------------------------------------------------------------------------
\* Properties
\* ------------------------------------------------------------------------

Done == pc = "done"

IsErrorResponse == response.kind \in {"error_redirect", "error_direct"}

IsDirect400 ==
  /\ response.kind = "error_direct"
  /\ response.status_code = 400
  /\ response.location = None

\* The request sent a key / the value it sent (None when it did not).
Sends(k) == k \in DOMAIN request.bag

SentValue(k) == Field(request.bag, k)

\* response_type was sent and is not "code".
ResponseTypeMismatch == Sends("response_type") /\ SentValue("response_type") # "code"

\* The request fails structural validation.
StructurallyInvalid == validation_errors(request.bag) # <<>>

\* Calls of one operation made so far.
CallsOf(op) == {i \in DOMAIN calls : calls[i].op = op}

\* The redirect_uri the request sent is not one the client c registered.
SentRedirectNotRegistered(c) ==
  /\ Sends("redirect_uri")
  /\ AnyUrlModel_model_validate(SentValue("redirect_uri"))
       \notin Range(redirect_uris(c))

\* C1: an error response is a 302 redirect only if provider.get_client
\* returned the client during this request and the Location is a value that
\* client's validate_redirect_uri returned during this request (hence one of
\* the client's registered URIs), never a raw request value the client did
\* not accept.
C1_OpenRedirectSafety ==
  response.kind = "error_redirect" =>
    /\ Truthy(client)
    /\ \E i \in CallsOf("get_client") : calls[i].res = client
    /\ \E j \in CallsOf("validate_redirect_uri") :
         /\ calls[j].client = client
         /\ calls[j].res = response.location
    /\ response.location \in Range(redirect_uris(client))

\* An error redirect whose target was recovered from a raw redirect_uri that
\* is spelled differently from the registered URI.
C1_Witness ==
  /\ Done
  /\ response.kind = "error_redirect"
  /\ StructurallyInvalid
  /\ Sends("redirect_uri")
  /\ SentValue("redirect_uri") # response.location

\* C2 as stated: a request whose redirect_uri is present but not registered
\* to the resolved client gets a direct JSON 400 invalid_request.
C2_Original ==
  (Done /\ Truthy(client) /\ SentRedirectNotRegistered(client)) =>
    /\ IsDirect400
    /\ response.error = "invalid_request"

\* C2 amended: such a request never gets a redirect; the response is a direct
\* JSON 400 whose error is server_error when an unexpected exception was
\* caught, else unsupported_response_type when response_type was sent and is
\* not "code", else invalid_request.
C2_UnregisteredRedirectIsDirect ==
  (Done /\ Truthy(client) /\ SentRedirectNotRegistered(client)) =>
    /\ IsDirect400
    /\ response.error =
         IF in_except THEN "server_error"
         ELSE IF ResponseTypeMismatch THEN "unsupported_response_type"
         ELSE "invalid_request"

\* The primary path resolved the client and the client rejected the
\* redirect_uri that was sent.
C2_Witness ==
  /\ Done
  /\ auth_request # NoRequest
  /\ Truthy(client)
  /\ SentRedirectNotRegistered(client)
  /\ response.error = "invalid_request"
  /\ IsDirect400

\* C3 as stated: no exception escapes handle, whatever the provider does.
C3_NoExceptionEscapes == pc # "raised"

\* C4: when the state parameter can be extracted as a string, every error
\* response (redirect or direct, server_error included) carries that value.
C4_StateEchoed ==
  (Done /\ IsErrorResponse /\ params # NoParams
     /\ Sends("state") /\ SentValue("state") # UploadFile) =>
    /\ response.state = SentValue("state")
    /\ response.kind = "error_redirect" => "state" \in response.query

\* A structurally invalid request that sent an empty state got an error
\* response echoing it.
C4_Witness ==
  /\ Done
  /\ IsErrorResponse
  /\ StructurallyInvalid
  /\ Sends("state")
  /\ response.state = ""
  /\ SentValue("state") = ""

\* C5 as stated: every request without client_id gets a direct JSON 400
\* invalid_request.
C5_Original ==
  (Done /\ ~Sends("client_id")) =>
    /\ IsDirect400
    /\ response.error = "invalid_request"

\* C5 amended: every request without client_id gets a direct JSON 400, never
\* a redirect; the error is invalid_request unless response_type was sent and
\* is not "code" (unsupported_response_type) or reading the request body
\* failed (server_error).
C5_MissingClientIdIsDirect ==
  (Done /\ ~Sends("client_id")) =>
    /\ IsDirect400
    /\ response.error =
         IF in_except THEN "server_error"
         ELSE IF ResponseTypeMismatch THEN "unsupported_response_type"
         ELSE "invalid_request"

\* A request without client_id and without response_type was answered.
C5_Witness ==
  /\ Done
  /\ ~Sends("client_id")
  /\ ~Sends("response_type")
  /\ Sends("redirect_uri")
  /\ response.error = "invalid_request"
  /\ IsDirect400

\* C6 as stated: without an unexpected exception, every request whose
\* response_type is not "code" (missing included) gets
\* unsupported_response_type, and every other structural failure gets
\* invalid_request.
C6_Original ==
  (Done /\ ~in_except /\ StructurallyInvalid) =>
    response.error =
      IF SentValue("response_type") # "code"
      THEN "unsupported_response_type"
      ELSE "invalid_request"

\* C6 amended: a response_type that was sent and is not "code" gives
\* unsupported_response_type; every other structural failure, a missing
\* response_type included, gives invalid_request; the response carries that
\* code unless an unexpected exception was caught (server_error).
C6_Classification ==
  (Done /\ StructurallyInvalid) =>
    response.error =
      IF in_except THEN "server_error"
      ELSE IF ResponseTypeMismatch THEN "unsupported_response_type"
      ELSE "invalid_request"

\* A request with response_type "token" and no client_id was classified as
\* unsupported_response_type.
C6_Witness ==
  /\ Done
  /\ ~in_except
  /\ ~Sends("client_id")
  /\ SentValue("response_type") = "token"
  /\ SentValue("code_challenge_method") = "plain"
  /\ response.error = "unsupported_response_type"

\* The client the raw client_id names, and the URI its redirect_uri recovers
\* to (None when it does not recover).
RawClient == get_client(best_effort_extract_string("client_id", request.bag))

RecoverableRedirect ==
  IF RawClient = None THEN None
  ELSE IF ~Sends("redirect_uri")
  THEN IF Len(redirect_uris(RawClient)) = 1
       THEN redirect_uris(RawClient)[1] ELSE None
  ELSE IF AnyUrlModel_model_validate(SentValue("redirect_uri"))
            \in Range(redirect_uris(RawClient))
  THEN AnyUrlModel_model_validate(SentValue("redirect_uri"))
  ELSE None

\* C7: when structural validation fails, the raw client_id resolves and the
\* redirect_uri recovers (absent with a single registered URI, or present and
\* registered), the error is a 302 redirect to that URI with the original
\* error code and the request's state.
C7_RecoveredRedirect ==
  (Done /\ ~in_except /\ StructurallyInvalid
     /\ RecoverableRedirect # None) =>
    /\ response.kind = "error_redirect"
    /\ response.status_code = 302
    /\ response.location = RecoverableRedirect
    /\ response.error = validation_error_code(validation_errors(request.bag))
    /\ response.state = best_effort_extract_string("state", request.bag)

\* Scenario C: response_type "token", no redirect_uri, client with one URI.
C7_Witness ==
  /\ Done
  /\ ~in_except
  /\ SentValue("response_type") = "token"
  /\ SentValue("client_id") = "c1"
  /\ ~Sends("redirect_uri")
  /\ SentValue("state") = "xyz"
  /\ response.kind = "error_redirect"
  /\ response.location = "https://app/cb"

\* The primary lookup by the validated client_id returned no client.
PrimaryLookupMissed ==
  /\ auth_request # NoRequest
  /\ Len(calls) >= 1
  /\ calls[1].op = "get_client"
  /\ calls[1].res = None

\* C8: when the primary lookup returns no client, get_client is not called
\* again and the response is a direct JSON 400 invalid_request.
C8_LookupMissIsDirect ==
  PrimaryLookupMissed =>
    /\ Cardinality(CallsOf("get_client")) = 1
    /\ pc # "raised"
    /\ Done =>
         /\ IsDirect400
         /\ response.error = "invalid_request"
         /\ response.error_description = ClientNotFoundText

\* Scenario B: an unknown client_id in an otherwise valid request.
C8_Witness ==
  /\ Done
  /\ PrimaryLookupMissed
  /\ SentValue("client_id") = "nobody"
  /\ IsDirect400

InErrorResponse == pc \in {"er_client", "er_redirect", "er_deliver"}

\* C9: inside error_response a field that is already known is left alone:
\* client, redirect_uri and state keep their value, and no call is made to
\* recover a known client or a known redirect_uri.
C9_RecoveryOnlyFillsGaps ==
  [][InErrorResponse =>
       /\ client # None => client' = client
       /\ redirect_uri # None => redirect_uri' = redirect_uri
       /\ state # None => state' = state
       /\ (pc = "er_client" /\ client # None) => calls' = calls
       /\ (pc = "er_redirect" /\ redirect_uri # None) => calls' = calls]_vars

\* error_response ran to the end with all three fields set by the primary
\* path (a scope or authorize failure).
C9_Witness ==
  /\ Done
  /\ IsErrorResponse
  /\ auth_request # NoRequest
  /\ auth_request.state # None
  /\ \E j \in CallsOf("validate_scope") : TRUE
  /\ Len(er_calls) = 1

\* C10: redirect_uri_provided_explicitly passed to provider.authorize is true
\* exactly when the request carried a redirect_uri, and when it carried none
\* and the client has exactly one registered URI, that URI is the
\* redirect_uri passed.
C10_ExplicitRedirectFlag ==
  \A i \in DOMAIN authorized :
    /\ authorized[i].redirect_uri_provided_explicitly = Sends("redirect_uri")
    /\ (~Sends("redirect_uri") /\ Len(redirect_uris(client)) = 1) =>
         authorized[i].redirect_uri = redirect_uris(client)[1]

\* provider.authorize succeeded for a request without redirect_uri.
C10_Witness ==
  /\ Done
  /\ response.kind = "success"
  /\ ~Sends("redirect_uri")
  /\ Len(authorized) = 1
  /\ authorized[1].redirect_uri = "https://app/cb"
  /\ ~authorized[1].redirect_uri_provided_explicitly

\* The last call made so far (a call to nothing when there is none).
LastCall ==
  IF calls = <<>> THEN Call(None, None, None, None) ELSE calls[Len(calls)]

\* The raw redirect_uri was sent and does not parse as a URL.
SentRedirectUnparsable ==
  /\ Sends("redirect_uri")
  /\ AnyUrlModel_model_validate(SentValue("redirect_uri")) = ValidationError

\* C11: a failure of recovery (client_id key missing, lookup miss,
\* redirect_uri unparsable or rejected) leaves the field unknown, does not
\* propagate (without an unexpected exception the except block is never
\* entered) and the response carries the error code and description
\* error_response was invoked with.
C11_RecoveryFailureKeepsError ==
  /\ faults = 0 => (~in_except /\ pc \notin {"except", "raised"})
  /\ (InErrorResponse \/ (Done /\ IsErrorResponse)) =>
       /\ er_calls # <<>>
       /\ er.error = er_calls[Len(er_calls)].error
       /\ er.error_description = er_calls[Len(er_calls)].error_description
  /\ (pc \in {"er_redirect", "er_deliver", "done"} /\ er_calls # <<>>) =>
       /\ (params # NoParams /\ ~Sends("client_id")) => client = None
       /\ (LastCall.op = "get_client" /\ LastCall.res = None) => client = None
  /\ (pc \in {"er_deliver", "done"} /\ er_calls # <<>>) =>
       /\ SentRedirectUnparsable => redirect_uri = None
       /\ LastCall.res = InvalidRedirectUriError => redirect_uri = None
  /\ (Done /\ IsErrorResponse) =>
       /\ response.error = er.error
       /\ response.error_description = er.error_description

\* Recovery loaded the client, the client rejected the raw redirect_uri, and
\* the response is the original structural error, delivered directly.
C11_Witness ==
  /\ Done
  /\ faults = 0
  /\ StructurallyInvalid
  /\ client = "c1"
  /\ LastCall.op = "validate_redirect_uri"
  /\ LastCall.res = InvalidRedirectUriError
  /\ redirect_uri = None
  /\ response.error = "unsupported_response_type"
  /\ IsDirect400

\* Some call to client.validate_redirect_uri returned a URI.
RedirectUriValidated ==
  \E j \in CallsOf("validate_redirect_uri") :
    calls[j].res \notin {InvalidRedirectUriError, Exception}

\* C12: an error response is a 302 redirect exactly when a client and a
\* validated redirect_uri are known after recovery, and a direct 400
\* otherwise; every response returned carries Cache-Control: no-store.
C12_DeliveryDecision ==
  Done =>
    /\ response.cache_control = "no-store"
    /\ response.kind \in {"success", "error_redirect", "error_direct"}
    /\ IsErrorResponse =>
         IF Truthy(client) /\ redirect_uri # None
         THEN /\ response.kind = "error_redirect"
              /\ response.status_code = 302
              /\ response.location = redirect_uri
              /\ RedirectUriValidated
         ELSE /\ IsDirect400
              /\ ~RedirectUriValidated

\* A direct error for a known client whose redirect_uri could not be
\* validated.
C12_Witness ==
  /\ Done
  /\ IsDirect400
  /\ Truthy(client)
  /\ redirect_uri = None
  /\ response.cache_control = "no-store"

\* The stages of the primary pipeline that call the provider or the client,
\* in order, and the positions of the primary pipeline.
PrimaryOps ==
  <<"get_client", "validate_redirect_uri", "validate_scope", "authorize">>

PrimaryPcs ==
  {"parse", "validate", "get_client", "validate_redirect_uri",
   "validate_scope", "authorize"}

\* The call returned a value (a client, a URI, scopes, a target).
Succeeded(c) ==
  c.res \notin {None, Exception, InvalidRedirectUriError, InvalidScopeError,
                AuthorizeError}

\* C13: provider.authorize is called at most once and only after structural
\* validation, get_client, validate_redirect_uri and validate_scope
\* succeeded, in that order; once a stage has failed (error_response was
\* entered or an exception was raised) no stage of the primary pipeline runs.
C13_PipelineOrder ==
  /\ Cardinality(CallsOf("authorize")) <= 1
  /\ Len(authorized) = Cardinality(CallsOf("authorize"))
  /\ \A i \in DOMAIN calls :
       calls[i].op \in {"validate_scope", "authorize"} =>
         /\ auth_request # NoRequest
         /\ ~StructurallyInvalid
         /\ i <= Len(PrimaryOps)
         /\ calls[i].op = PrimaryOps[i]
         /\ \A k \in 1..(i - 1) :
              calls[k].op = PrimaryOps[k] /\ Succeeded(calls[k])
  /\ \A i \in DOMAIN calls :
       ~Succeeded(calls[i]) =>
         \A j \in (i + 1)..Len(calls) :
           calls[j].op \in {"get_client", "validate_redirect_uri"}
  /\ (er_calls # <<>> \/ faults > 0) => pc \notin PrimaryPcs

\* provider.authorize was reached through all four stages and returned.
C13_Witness ==
  /\ Done
  /\ Len(calls) = 4
  /\ calls[4].op = "authorize"
  /\ response.kind = "success"

\* C14: in recovery a redirect_uri key that is present but unparsable (or not
\* a string) never makes the client's default be used: the client is only
\* asked for its default when the key is absent, redirect_uri stays unknown
\* and the error is a direct 400 even for a client with a single URI.
C14_UnparsableIsNotDefault ==
  /\ \A j \in CallsOf("validate_redirect_uri") :
       calls[j].arg = None => ~Sends("redirect_uri")
  /\ SentRedirectUnparsable =>
       /\ redirect_uri = None
       /\ ~RedirectUriValidated
       /\ Done => IsDirect400

\* A client with a single registered URI was loaded in recovery, the raw
\* redirect_uri did not parse, and the error went out directly.
C14_Witness ==
  /\ Done
  /\ client = "c1"
  /\ SentValue("redirect_uri") = "not a url"
  /\ CallsOf("validate_redirect_uri") = {}
  /\ IsDirect400

\* C15: an InvalidScopeError or an AuthorizeError raised after the primary
\* path validated the redirect_uri is delivered as a 302 redirect to that
\* URI, with invalid_scope resp. the provider's own code and description.
C15_LateDomainErrorRedirects ==
  (Done /\ LastCall.op \in {"validate_scope", "authorize"}
     /\ LastCall.res \in {InvalidScopeError, AuthorizeError}) =>
    /\ response.kind = "error_redirect"
    /\ response.status_code = 302
    /\ response.location = calls[2].res
    /\ calls[2].op = "validate_redirect_uri"
    /\ IF LastCall.res = InvalidScopeError
       THEN /\ response.error = "invalid_scope"
            /\ response.error_description = ScopeText
       ELSE [error |-> response.error,
             error_description |-> response.error_description]
              \in AuthorizeErrors

\* provider.authorize raised AuthorizeError without a description and the
\* error was redirected to the client's URI.
C15_Witness ==
  /\ Done
  /\ LastCall.op = "authorize"
  /\ LastCall.res = AuthorizeError
  /\ response.kind = "error_redirect"
  /\ response.error = "temporarily_unavailable"
  /\ response.location = "https://app/cb2"

\* Finished: a response was returned or an exception left handle.
Finished == pc \in {"done", "raised"}

\* C16 as stated: whenever something unexpected was raised, handle ends with
\* a server_error response carrying the generic description, a redirect if
\* the redirect_uri is known by then and a direct 400 otherwise.
C16_UnexpectedIsServerError ==
  (Finished /\ faults > 0) =>
    /\ Done
    /\ response.error = "server_error"
    /\ response.error_description = UnexpectedText
    /\ Len(er_calls) >= 1
    /\ er_calls[Len(er_calls)].in_except
    /\ IF Truthy(client) /\ redirect_uri # None
       THEN response.kind = "error_redirect" /\ response.location = redirect_uri
       ELSE IsDirect400

\* C17 as stated: an empty client_id never passes structural validation and
\* provider.get_client is never called with an empty client_id.
C17_EmptyClientIdRejected ==
  /\ (Sends("client_id") /\ SentValue("client_id") = "") =>
       auth_request = NoRequest
  /\ \A i \in CallsOf("get_client") : calls[i].arg # ""

\* The state a request makes known: the string it sent, if any.
KnownState ==
  IF Sends("state") /\ SentValue("state") # UploadFile
  THEN SentValue("state") ELSE None

\* C18: the query of an error redirect holds exactly the fields that are not
\* absent: error always, error_description exactly when error_response was
\* given one, state exactly when the request sent a string state (an empty
\* one included), error_uri never.
C18_RedirectQuery ==
  response.kind = "error_redirect" =>
    /\ "error" \in response.query
    /\ response.error = er.error
    /\ "error_description" \in response.query <=> er.error_description # None
    /\ response.error_description = er.error_description
    /\ "state" \in response.query <=> KnownState # None
    /\ response.state = KnownState
    /\ "error_uri" \notin response.query
    /\ response.query \subseteq {"error", "error_description", "state"}

\* An error redirect with an empty state and without a description.
C18_Witness ==
  /\ Done
  /\ response.kind = "error_redirect"
  /\ response.query = {"error", "state"}
  /\ response.state = ""
  /\ er.error_description = None

\* No call to the provider or the client raised an unexpected exception.
NoCallRaised == \A i \in DOMAIN calls : calls[i].res # Exception

\* C19: provider.get_client is called at most once when no call raises an
\* unexpected exception and at most twice otherwise; error_response is
\* entered at most twice, the second time only from the except block with
\* server_error.
C19_BoundedProviderUse ==
  /\ NoCallRaised => Cardinality(CallsOf("get_client")) <= 1
  /\ Cardinality(CallsOf("get_client")) <= 2
  /\ Len(er_calls) <= 2
  /\ Len(er_calls) = 2 =>
       /\ ~er_calls[1].in_except
       /\ er_calls[2].in_except
       /\ er_calls[2].error = "server_error"

\* get_client was called twice and error_response entered twice: the lookup
\* of recovery raised, and the except block looked the client up again.
C19_Witness ==
  /\ Done
  /\ Cardinality(CallsOf("get_client")) = 2
  /\ Len(er_calls) = 2
  /\ response.error = "server_error"

====
